---- MODULE Spec2Model ----
(***************************************************************************)
(* Model of src/js/validator.js: the debounced, request-coalescing         *)
(* validation dispatcher of the store (store._validator, the request queue *)
(* validationRequests, the timer handle timeout, scheduleValidation and    *)
(* runValidation).                                                         *)
(*                                                                         *)
(* JavaScript runs every handler to completion on one thread.  A handler   *)
(* is one action.  The one exception is the fan-out of a transport         *)
(* response: the handler calls the callbacks of the batch, which are       *)
(* application code and may call store._validator again.  The fan-out is   *)
(* therefore one step per callback and one for the handler's return;       *)
(* while it lasts (delivering # 0) no other handler runs, and the only     *)
(* other step enabled is a call of store._validator made from inside the   *)
(* callback just invoked.                                                  *)
(*                                                                         *)
(* JavaScript values are modelled by strings and records: "undefined" is   *)
(* undefined, "null" is null, "" the empty string; the booleans handed to  *)
(* a callback are "true" and "false".  Product ids are ordinary ids (not   *)
(* the name of a property of Object.prototype).                            *)
(*                                                                         *)
(* The code calls four things it does not define: the logging sink         *)
(* store.log.debug, the resolver store.getApplicationUsername, the         *)
(* transport store.utils.ajax and the callbacks.  In Spec, SpecPrepare,    *)
(* SpecUsername, SpecTransport, SpecFair, SpecConfig, SpecDelegate and     *)
(* SpecSteps they return normally and a success carries a parsed object.   *)
(* What the code does when one of them raises, or when a success carries   *)
(* no body, is modelled by actions of their own, in SpecLog, SpecBatches   *)
(* and SpecMalformed.                                                      *)
(***************************************************************************)
EXTENDS Integers, Sequences, FiniteSets, TLC

\* ---------------------------------------------------------------- bounds
\* Number of application calls of store._validator in one behaviour.
MaxCalls == 3
\* The same, in the specifications with more kinds of input.
MaxCallsSmall == 2
\* Milliseconds the clock advances in one Tick.
TickMs == 750

\* ---------------------------------------------------- program constants
\* setTimeout(runValidation, 1500)
Delay == 1500

VARIABLES
    validator,            \* store.validator: "null", a url, or "function"
    prepareForValidation, \* whether store._prepareForValidation is set
    applicationUsername,  \* what store.getApplicationUsername returns now
    validationRequests,   \* var validationRequests: sequence of requests
    timeout,              \* var timeout: Null or the handle of a timer
    timers,               \* the runtime's pending timers: handle -> ms left
    nTimers,              \* number of timers created (handles are 1, 2, ..)
    cancelled,            \* handles cleared while pending
    fired,                \* handles whose timer ran runValidation
    posts,                \* the calls of store.utils.ajax, in order
    delivering,           \* 0, or the post whose response is being fanned out
    prepareCalls,         \* the calls of store._prepareForValidation
    prepareDone,          \* indexes of prepareCalls whose completion was invoked
    delegations,          \* the calls of a function store.validator
    nCalls,               \* number of application calls of store._validator
    invoked,              \* callback -> the invocations it received
    firings,              \* the runs of runValidation, in order
    enqueued,             \* the pushes on validationRequests, in order
    sinceEnqueue,         \* ms since the last push (saturates at Delay)
    lastRun,              \* callback and isPrepared of the last run of store._validator
    dispatching,          \* the firing whose dispatch loop is running, or NotDispatching
    raised                \* <<firing, product id>> of the batches whose dispatch raised

vars == <<validator, prepareForValidation, applicationUsername,
          validationRequests, timeout, timers, nTimers, cancelled, fired,
          posts, delivering, prepareCalls, prepareDone, delegations,
          nCalls, invoked, firings, enqueued, sinceEnqueue, lastRun,
          dispatching, raised>>

\* ------------------------------------------------------ JavaScript values
Null == 0
Undefined == "undefined"

\* ToBoolean of a string-modelled JavaScript value.
Truthy(v) == v \notin {Undefined, "null", "", "false"}

Min(a, b) == IF a < b THEN a ELSE b
Max(a, b) == IF a > b THEN a ELSE b

\* typeof store.validator === 'string'
TypeofString(v) == v \notin {"null", "function"}

\* ------------------------------------------------------------- products
ProductIds == {"a", "b"}

\* product.additionalData: null, {} or {applicationUsername: v}.
NullAdditionalData ==
    [isObject |-> FALSE, hasKey |-> FALSE, applicationUsername |-> Undefined]
EmptyAdditionalData ==
    [isObject |-> TRUE, hasKey |-> FALSE, applicationUsername |-> Undefined]
WithApplicationUsername(v) ==
    [isObject |-> TRUE, hasKey |-> TRUE, applicationUsername |-> v]

\* What the resolver store.getApplicationUsername can answer.
ResolverValues == {Undefined, "", "resolved"}

AdditionalDataValues ==
    {NullAdditionalData, EmptyAdditionalData,
     WithApplicationUsername(""), WithApplicationUsername("own")}

\* The product objects a caller can pass in call c: ref identifies the
\* snapshot (the object) the caller passed.
Products(c) ==
    {[id |-> i, ref |-> c, additionalData |-> ad] :
        i \in ProductIds, ad \in AdditionalDataValues}

\* Products as in the documentation's example body (additionalData: null).
PlainProducts(c) ==
    {[id |-> i, ref |-> c, additionalData |-> NullAdditionalData] :
        i \in ProductIds}

\* ------------------------------------------------------------ transport
Url == "https://validator"
ValidatorValues == {"null", Url, "function"}

BodyOk == [ok |-> "true", data |-> "transaction"]
Error500 == [status |-> 500, message |-> "Internal Error"]


\* Response bodies handed to the success handler: a parsed object whose
\* ok and data fields may be missing.
ResponseBodies ==
    {BodyOk,
     [ok |-> "false", data |-> "code"],
     [ok |-> Undefined, data |-> "transaction"],
     [ok |-> "true", data |-> Undefined]}

\* (status, message) pairs handed to the error handler.
TransportErrors ==
    {Error500,
     [status |-> 404, message |-> "Not Found"]}

NoOutcome == [ok |-> "none", data |-> [none |-> TRUE]]
NoResponse == [kind |-> "none"]

\* No firing is inside its dispatch loop.
NotDispatching == [firing |-> 0, byProduct |-> <<>>, next |-> 0]

\* -------------------------------------------------------------- timers
\* clearTimeout(h): the runtime forgets a pending timer.
clearTimeout(ts, h) == [i \in (DOMAIN ts) \ {h} |-> ts[i]]

\* setTimeout(fn, ms) returning handle h.
setTimeout(ts, h, ms) ==
    [i \in (DOMAIN ts) \cup {h} |-> IF i = h THEN ms ELSE ts[i]]

Pending(h) == h \in DOMAIN timers

\* A scheduler that leaves a pending timer running instead of restarting it.
scheduleValidation_NoRestart ==
    IF timeout # Null
    THEN UNCHANGED <<cancelled, timers, nTimers, timeout>>
    ELSE /\ cancelled' = cancelled
         /\ timers' = setTimeout(timers, nTimers + 1, Delay)
         /\ nTimers' = nTimers + 1
         /\ timeout' = nTimers + 1

\* A scheduler that starts a timer without clearing the pending one.
scheduleValidation_NoClear ==
    /\ cancelled' = cancelled
    /\ timers' = setTimeout(timers, nTimers + 1, Delay)
    /\ nTimers' = nTimers + 1
    /\ timeout' = nTimers + 1

\* function scheduleValidation()
scheduleValidation ==
    LET cleared == IF timeout # Null THEN clearTimeout(timers, timeout)
                                     ELSE timers
        h == nTimers + 1
    IN  /\ cancelled' = IF timeout # Null /\ Pending(timeout)
                            THEN cancelled \cup {timeout} ELSE cancelled
        /\ timers' = setTimeout(cleared, h, Delay)
        /\ nTimers' = h
        /\ timeout' = h

\* ---------------------------------------------------------- store._validator
\* if (!store.validator) { callback(true, product); return; }
Bypass(product, callback) ==
    /\ invoked' = [invoked EXCEPT ![callback] =
                      Append(@, [ok |-> "true", data |-> [product |-> product],
                                 via |-> 0])]
    /\ UNCHANGED <<validationRequests, timeout, timers, nTimers, cancelled,
                   prepareCalls, delegations, enqueued, sinceEnqueue>>

\* store._prepareForValidation(product, function() { ... }); return;
Prepare(product, callback) ==
    /\ prepareCalls' = Append(prepareCalls,
                              [product |-> product, callback |-> callback])
    /\ UNCHANGED <<validationRequests, timeout, timers, nTimers, cancelled,
                   invoked, delegations, enqueued, sinceEnqueue>>

\* A push that schedules nothing.
Enqueue_NoSchedule(product, callback) ==
    /\ validationRequests' = Append(validationRequests,
                                [product |-> product, callback |-> callback])
    /\ enqueued' = Append(enqueued, [callback |-> callback,
                                     firingsBefore |-> Len(firings),
                                     during |-> delivering])
    /\ sinceEnqueue' = 0
    /\ UNCHANGED <<timeout, timers, nTimers, cancelled, invoked,
                   prepareCalls, delegations>>

\* validationRequests.push({product, callback}); scheduleValidation();
Enqueue(product, callback) ==
    /\ validationRequests' = Append(validationRequests,
                                [product |-> product, callback |-> callback])
    /\ scheduleValidation
    /\ enqueued' = Append(enqueued, [callback |-> callback,
                                     firingsBefore |-> Len(firings),
                                     during |-> delivering])
    /\ sinceEnqueue' = 0
    /\ UNCHANGED <<invoked, prepareCalls, delegations>>

\* store.validator(product, callback);
Delegate(product, callback) ==
    /\ delegations' = Append(delegations,
                             [product |-> product, callback |-> callback])
    /\ UNCHANGED <<validationRequests, timeout, timers, nTimers, cancelled,
                   invoked, prepareCalls, enqueued, sinceEnqueue>>

\* An entry point that looks at the pre-validation step before it looks at
\* the validator.
_validator_PrepareFirst(product, callback, isPrepared) ==
    IF prepareForValidation /\ isPrepared # TRUE
    THEN Prepare(product, callback)
    ELSE IF ~Truthy(validator)
    THEN Bypass(product, callback)
    ELSE IF TypeofString(validator)
    THEN Enqueue(product, callback)
    ELSE Delegate(product, callback)

\* An entry point without the typeof test: every validator is taken for a url.
_validator_NoTypeof(product, callback, isPrepared) ==
    IF ~Truthy(validator)
    THEN Bypass(product, callback)
    ELSE IF prepareForValidation /\ isPrepared # TRUE
    THEN Prepare(product, callback)
    ELSE Enqueue(product, callback)

\* store._validator = function(product, callback, isPrepared)
_validator(product, callback, isPrepared) ==
    IF ~Truthy(validator)
    THEN Bypass(product, callback)
    ELSE IF prepareForValidation /\ isPrepared # TRUE
    THEN Prepare(product, callback)
    ELSE IF TypeofString(validator)
    THEN Enqueue(product, callback)
    ELSE Delegate(product, callback)

\* ------------------------------------------------------------ runValidation
\* A firing that leaves the captured requests in the queue.
ResetQueue_Keep == validationRequests

\* validationRequests = [];
ResetQueue == <<>>

\* A merge that never finds the product id: one entry per request.
MergeRequest_NoMerge(byProduct, request) ==
    Append(byProduct, [productId |-> request.product.id,
                       product |-> request.product,
                       callbacks |-> <<request.callback>>])

\* A merge that does not look at the product id: one entry in all.
MergeRequest_AnyId(byProduct, request) ==
    IF byProduct # <<>>
    THEN [byProduct EXCEPT ![1] =
             [productId |-> @.productId,
              callbacks |-> Append(@.callbacks, request.callback),
              product |-> request.product]]
    ELSE Append(byProduct, [productId |-> request.product.id,
                            product |-> request.product,
                            callbacks |-> <<request.callback>>])

\* A merge that keeps the product of the first request for an id.
MergeRequest_KeepFirst(byProduct, request) ==
    LET productId == request.product.id
        found == {i \in DOMAIN byProduct : byProduct[i].productId = productId}
    IN  IF found # {}
        THEN LET i == CHOOSE j \in found : TRUE
             IN  [byProduct EXCEPT ![i] =
                     [productId |-> productId,
                      callbacks |-> Append(@.callbacks, request.callback),
                      product |-> @.product]]
        ELSE Append(byProduct, [productId |-> productId,
                                product |-> request.product,
                                callbacks |-> <<request.callback>>])

\* A merge that replaces the callbacks of the entry instead of adding to them.
MergeRequest_DropCallbacks(byProduct, request) ==
    LET productId == request.product.id
        found == {i \in DOMAIN byProduct : byProduct[i].productId = productId}
    IN  IF found # {}
        THEN LET i == CHOOSE j \in found : TRUE
             IN  [byProduct EXCEPT ![i] =
                     [productId |-> productId,
                      callbacks |-> <<request.callback>>,
                      product |-> request.product]]
        ELSE Append(byProduct, [productId |-> productId,
                                product |-> request.product,
                                callbacks |-> <<request.callback>>])

\* The body of requests.forEach: merge one request into byProduct.  byProduct
\* is kept as the sequence of its entries in insertion order, the order in
\* which Object.keys lists them.
MergeRequest(byProduct, request) ==
    LET productId == request.product.id
        found == {i \in DOMAIN byProduct : byProduct[i].productId = productId}
    IN  IF found # {}
        THEN LET i == CHOOSE j \in found : TRUE
             IN  [byProduct EXCEPT ![i] =
                     [productId |-> productId,
                      callbacks |-> Append(@.callbacks, request.callback),
                      product |-> request.product]]
        ELSE Append(byProduct, [productId |-> productId,
                                product |-> request.product,
                                callbacks |-> <<request.callback>>])

RECURSIVE ForEachRequest(_, _)
ForEachRequest(requests, byProduct) ==
    IF requests = <<>> THEN byProduct
    ELSE ForEachRequest(Tail(requests), MergeRequest(byProduct, Head(requests)))

\* var byProduct = {}; requests.forEach(...)
MergeByProduct(requests) == ForEachRequest(requests, <<>>)

\* store.getApplicationUsername(product)
getApplicationUsername(product) == applicationUsername

\* if (!product.additionalData) product.additionalData = {};
EnsureAdditionalData(product) ==
    IF ~product.additionalData.isObject
    THEN [product EXCEPT !.additionalData = EmptyAdditionalData]
    ELSE product

\* if (!product.additionalData.applicationUsername)
\*     product.additionalData.applicationUsername = store.getApplicationUsername(product);
ResolveApplicationUsername(product) ==
    IF ~Truthy(product.additionalData.applicationUsername)
    THEN [product EXCEPT !.additionalData =
             WithApplicationUsername(getApplicationUsername(product))]
    ELSE product

\* A normalization without the delete.
DeleteFalsyApplicationUsername_Skip(product) == product

\* if (!product.additionalData.applicationUsername)
\*     delete product.additionalData.applicationUsername;
DeleteFalsyApplicationUsername(product) ==
    IF ~Truthy(product.additionalData.applicationUsername)
    THEN [product EXCEPT !.additionalData = EmptyAdditionalData]
    ELSE product

\* "Ensure applicationUsername is sent with validation requests"
Normalize(product) ==
    DeleteFalsyApplicationUsername(
        ResolveApplicationUsername(EnsureAdditionalData(product)))

\* A call whose batch comes from a byProduct that outlives the firing: the
\* callbacks of the last call for the same id are still in the entry.
Ajax_SharedByProduct(request, firing) ==
    LET prev == {k \in DOMAIN posts : posts[k].data.id = request.product.id}
        last == CHOOSE k \in prev : \A j \in prev : j <= k
    IN  [firing |-> firing,
         url |-> validator,
         method |-> "POST",
         data |-> Normalize(request.product),
         callbacks |-> IF prev = {} THEN request.callbacks
                       ELSE posts[last].callbacks \o request.callbacks,
         state |-> "sent",
         response |-> NoResponse,
         outcome |-> NoOutcome,
         next |-> 0]

\* store.utils.ajax({url: store.validator, method: 'POST', data: product, ...})
Ajax(request, firing) ==
    [firing |-> firing,
     url |-> validator,
     method |-> "POST",
     data |-> Normalize(request.product),
     callbacks |-> request.callbacks,
     state |-> "sent",
     response |-> NoResponse,
     outcome |-> NoOutcome,
     next |-> 0]

\* function runValidation(), run by the timer with handle t.
runValidation(t) ==
    /\ delivering = 0
    /\ Pending(t)
    /\ timers[t] = 0
    /\ LET requests == validationRequests
           byProduct == MergeByProduct(requests)
           firing == Len(firings) + 1
       IN  /\ timeout' = Null
           /\ validationRequests' = ResetQueue
           /\ posts' = posts \o [i \in 1..Len(byProduct) |->
                                    Ajax(byProduct[i], firing)]
           /\ firings' = Append(firings,
                                [timer |-> t,
                                 requests |-> requests,
                                 sinceEnqueue |-> sinceEnqueue,
                                 resolved |-> applicationUsername])
    /\ timers' = clearTimeout(timers, t)
    /\ fired' = fired \cup {t}
    /\ UNCHANGED <<validator, prepareForValidation, applicationUsername,
                   nTimers, cancelled, delivering, prepareCalls, prepareDone,
                   delegations, nCalls, invoked, enqueued, sinceEnqueue,
                   lastRun, dispatching, raised>>

\* callback(data && data.ok, data.data)
SuccessOutcome(body) == [ok |-> body.ok, data |-> [body |-> body.data]]

\* An error handler that leaves the status out of the message.
ErrorOutcome_NoStatus(status, message) ==
    [ok |-> "false", data |-> [message |-> "Error: " \o message]]

\* var fullMessage = "Error " + status + ": " + message; callback(false, fullMessage)
ErrorOutcome(status, message) ==
    [ok |-> "false",
     data |-> [message |-> "Error " \o ToString(status) \o ": " \o message]]

\* The transport answers post k: the handler starts and computes the
\* arguments it will hand to every callback of the batch.
Respond(k, response, outcome) ==
    /\ delivering = 0
    /\ k \in DOMAIN posts
    /\ posts[k].state = "sent"
    /\ posts' = [posts EXCEPT ![k] = [@ EXCEPT !.state = "delivering",
                                               !.response = response,
                                               !.outcome = outcome,
                                               !.next = 1]]
    /\ delivering' = k
    /\ UNCHANGED <<validator, prepareForValidation, applicationUsername,
                   validationRequests, timeout, timers, nTimers, cancelled,
                   fired, prepareCalls, prepareDone, delegations, nCalls,
                   invoked, firings, enqueued, sinceEnqueue, lastRun,
                   dispatching, raised>>

\* success: function(data) { ... }
AjaxSuccess(k, body) ==
    Respond(k, [kind |-> "success", body |-> body], SuccessOutcome(body))

\* error: function(status, message, data) { ... }
AjaxError(k, status, message) ==
    Respond(k, [kind |-> "error", status |-> status, message |-> message],
            ErrorOutcome(status, message))

\* One turn of request.callbacks.forEach(function(callback) { callback(..) }):
\* the next callback of the batch is called.
InvokeCallback ==
    /\ delivering # 0
    /\ posts[delivering].next <= Len(posts[delivering].callbacks)
    /\ LET k == delivering
           post == posts[k]
           callback == post.callbacks[post.next]
       IN  /\ invoked' = [invoked EXCEPT ![callback] =
                             Append(@, [ok |-> post.outcome.ok,
                                        data |-> post.outcome.data,
                                        via |-> k])]
           /\ posts' = [posts EXCEPT ![k] = [@ EXCEPT !.next = @ + 1]]
    /\ UNCHANGED <<validator, prepareForValidation, applicationUsername,
                   validationRequests, timeout, timers, nTimers, cancelled,
                   fired, delivering, prepareCalls, prepareDone, delegations,
                   nCalls, firings, enqueued, sinceEnqueue, lastRun,
                   dispatching, raised>>

\* The last callback has returned: forEach is through and the handler returns.
HandlerReturns ==
    /\ delivering # 0
    /\ posts[delivering].next > Len(posts[delivering].callbacks)
    /\ posts' = [posts EXCEPT ![delivering] = [@ EXCEPT !.state = "done"]]
    /\ delivering' = 0
    /\ UNCHANGED <<validator, prepareForValidation, applicationUsername,
                   validationRequests, timeout, timers, nTimers, cancelled,
                   fired, prepareCalls, prepareDone, delegations, nCalls,
                   invoked, firings, enqueued, sinceEnqueue, lastRun,
                   dispatching, raised>>

\* ------------------------------------------------------------ environment
\* The application calls store._validator(product, callback, isPrepared):
\* from its own code, or from inside the callback the fan-out just invoked.
Validate(product, isPrepared) ==
    /\ nCalls < MaxCalls
    /\ IF delivering = 0 THEN TRUE ELSE posts[delivering].next > 1
    /\ product.ref = nCalls + 1
    /\ _validator(product, nCalls + 1, isPrepared)
    /\ nCalls' = nCalls + 1
    /\ lastRun' = [callback |-> nCalls + 1, isPrepared |-> isPrepared]
    /\ UNCHANGED <<validator, prepareForValidation, applicationUsername,
                   fired, posts, delivering, prepareDone, firings,
                   dispatching, raised>>

\* A completion that recurses without isPrepared.
PrepareDone_NotPrepared(i) ==
    /\ delivering = 0
    /\ i \in DOMAIN prepareCalls
    /\ i \notin prepareDone
    /\ _validator(prepareCalls[i].product, prepareCalls[i].callback, FALSE)
    /\ prepareDone' = prepareDone \cup {i}
    /\ lastRun' = [callback |-> prepareCalls[i].callback, isPrepared |-> FALSE]
    /\ UNCHANGED <<validator, prepareForValidation, applicationUsername,
                   fired, posts, delivering, nCalls, firings, dispatching,
                   raised>>

\* The pre-validation step completes:
\* function() { store._validator(product, callback, true); }
PrepareDone(i) ==
    /\ delivering = 0
    /\ i \in DOMAIN prepareCalls
    /\ i \notin prepareDone
    /\ _validator(prepareCalls[i].product, prepareCalls[i].callback, TRUE)
    /\ prepareDone' = prepareDone \cup {i}
    /\ lastRun' = [callback |-> prepareCalls[i].callback, isPrepared |-> TRUE]
    /\ UNCHANGED <<validator, prepareForValidation, applicationUsername,
                   fired, posts, delivering, nCalls, firings, dispatching,
                   raised>>

\* The application sets store.validator.
SetValidator(v) ==
    /\ delivering = 0
    /\ v # validator
    /\ validator' = v
    /\ UNCHANGED <<prepareForValidation, applicationUsername,
                   validationRequests, timeout, timers, nTimers, cancelled,
                   fired, posts, delivering, prepareCalls, prepareDone,
                   delegations, nCalls, invoked, firings, enqueued,
                   sinceEnqueue, lastRun, dispatching, raised>>

\* Time passes.
Tick ==
    /\ delivering = 0
    /\ IF sinceEnqueue < Delay THEN TRUE
       ELSE \E h \in DOMAIN timers : timers[h] > 0
    /\ timers' = [h \in DOMAIN timers |-> Max(0, timers[h] - TickMs)]
    /\ sinceEnqueue' = Min(Delay, sinceEnqueue + TickMs)
    /\ UNCHANGED <<validator, prepareForValidation, applicationUsername,
                   validationRequests, timeout, nTimers, cancelled, fired,
                   posts, delivering, prepareCalls, prepareDone, delegations,
                   nCalls, invoked, firings, enqueued, lastRun, dispatching,
                   raised>>

\* ---------------------------------------------------------- specification
\* store.validator = null; var validationRequests = []; var timeout = null;
Construction ==
    /\ validator = "null"
    /\ validationRequests = <<>>
    /\ timeout = Null
    /\ timers = <<>>
    /\ nTimers = 0
    /\ cancelled = {}
    /\ fired = {}
    /\ posts = <<>>
    /\ delivering = 0
    /\ prepareCalls = <<>>
    /\ prepareDone = {}
    /\ delegations = <<>>
    /\ nCalls = 0
    /\ invoked = [c \in 1..MaxCalls |-> <<>>]
    /\ firings = <<>>
    /\ enqueued = <<>>
    /\ sinceEnqueue = Delay
    /\ lastRun = [callback |-> 0, isPrepared |-> FALSE]
    /\ dispatching = NotDispatching
    /\ raised = {}

\* The transport answers a post, with a success or with an error.
Transport(bodies, errors) ==
    \/ \E k \in DOMAIN posts, body \in bodies : AjaxSuccess(k, body)
    \/ \E k \in DOMAIN posts, e \in errors : AjaxError(k, e.status, e.message)

\* The steps every specification has; the application sets store.validator
\* to one of validators.
Dispatch(validators) ==
    \/ \E v \in validators : SetValidator(v)
    \/ Tick
    \/ \E t \in DOMAIN timers : runValidation(t)
    \/ InvokeCallback
    \/ HandlerReturns

\* A store with no pre-validation step and no application username, whose
\* validator is set to a url once and for all: up to MaxCalls calls with
\* products as in the documentation's example.
Init ==
    /\ Construction
    /\ prepareForValidation = FALSE
    /\ applicationUsername = Undefined

Next ==
    \/ \E p \in PlainProducts(nCalls + 1) : Validate(p, FALSE)
    \/ Dispatch({Url})
    \/ Transport({BodyOk}, {Error500})

Spec == Init /\ [][Next]_vars

\* A store that may have a pre-validation step: up to MaxCallsSmall calls,
\* each with or without isPrepared.
InitPrepare ==
    /\ Construction
    /\ prepareForValidation \in BOOLEAN
    /\ applicationUsername = Undefined

NextPrepare ==
    \/ \E p \in PlainProducts(nCalls + 1), isPrepared \in BOOLEAN :
           nCalls < MaxCallsSmall /\ Validate(p, isPrepared)
    \/ \E i \in DOMAIN prepareCalls : PrepareDone(i)
    \/ Dispatch({"null", Url})
    \/ Transport({BodyOk}, {Error500})

SpecPrepare == InitPrepare /\ [][NextPrepare]_vars

\* Every shape of additionalData and every answer of the resolver: up to
\* MaxCallsSmall calls for one product id.
InitUsername ==
    /\ Construction
    /\ prepareForValidation = FALSE
    /\ applicationUsername \in ResolverValues

NextUsername ==
    \/ \E p \in Products(nCalls + 1) :
           nCalls < MaxCallsSmall /\ p.id = "a" /\ Validate(p, FALSE)
    \/ Dispatch({Url})
    \/ Transport({BodyOk}, {Error500})

SpecUsername == InitUsername /\ [][NextUsername]_vars

\* Every response of the transport: up to MaxCallsSmall calls.
NextTransport ==
    \/ \E p \in PlainProducts(nCalls + 1) :
           nCalls < MaxCallsSmall /\ Validate(p, FALSE)
    \/ Dispatch({Url})
    \/ Transport(ResponseBodies, TransportErrors)

SpecTransport == Init /\ [][NextTransport]_vars

\* A store whose validator the application may set, change and unset at any
\* time: up to MaxCallsSmall calls.  Time advances, a timer that is due
\* fires, the transport answers every call with a success or an error, and
\* a handler that has started runs to its end.
NextFair ==
    \/ \E p \in PlainProducts(nCalls + 1) :
           nCalls < MaxCallsSmall /\ Validate(p, FALSE)
    \/ Dispatch(ValidatorValues)
    \/ Transport({BodyOk}, {Error500})

\* The transport answers post k.
Answer(k) ==
    \/ AjaxSuccess(k, BodyOk)
    \/ AjaxError(k, Error500.status, Error500.message)

Fairness ==
    /\ WF_vars(Tick)
    /\ \A t \in 1..MaxCalls : WF_vars(runValidation(t))
    /\ \A k \in 1..MaxCalls : WF_vars(Answer(k))
    /\ WF_vars(InvokeCallback)
    /\ WF_vars(HandlerReturns)

SpecFair == Init /\ [][NextFair]_vars /\ Fairness

\* The same store, with nothing said about what must happen.
SpecConfig == Init /\ [][NextFair]_vars

\* A store that may have a pre-validation step and whose validator the
\* application sets to a url or to a function: up to MaxCallsSmall calls,
\* each with or without isPrepared.
NextDelegate ==
    \/ \E p \in PlainProducts(nCalls + 1), isPrepared \in BOOLEAN :
           nCalls < MaxCallsSmall /\ Validate(p, isPrepared)
    \/ \E i \in DOMAIN prepareCalls : PrepareDone(i)
    \/ Dispatch({Url, "function"})
    \/ Transport({BodyOk}, {Error500})

SpecDelegate == InitPrepare /\ [][NextDelegate]_vars

\* ------------------------------------------------- a logging sink that raises
\* store.log.debug is called first thing in scheduleValidation and in
\* runValidation, and before the callbacks in both response handlers.  None
\* of the calls is guarded: when the sink raises, the error leaves the
\* function at that line.

\* validationRequests.push(...); scheduleValidation() whose log call raises:
\* the request is in the queue, clearTimeout and setTimeout are not reached.
EnqueueLogRaises(product, callback) ==
    /\ validationRequests' = Append(validationRequests,
                                [product |-> product, callback |-> callback])
    /\ enqueued' = Append(enqueued, [callback |-> callback,
                                     firingsBefore |-> Len(firings),
                                     during |-> delivering])
    /\ sinceEnqueue' = 0
    /\ UNCHANGED <<timeout, timers, nTimers, cancelled, invoked,
                   prepareCalls, delegations>>

\* The application's own code calls store._validator with a url configured
\* and no pre-validation step, and the sink raises in scheduleValidation.
ValidateLogRaises(product) ==
    /\ nCalls < MaxCalls
    /\ delivering = 0
    /\ product.ref = nCalls + 1
    /\ Truthy(validator)
    /\ ~prepareForValidation
    /\ TypeofString(validator)
    /\ EnqueueLogRaises(product, nCalls + 1)
    /\ nCalls' = nCalls + 1
    /\ lastRun' = [callback |-> nCalls + 1, isPrepared |-> FALSE]
    /\ UNCHANGED <<validator, prepareForValidation, applicationUsername,
                   fired, posts, delivering, prepareDone, firings,
                   dispatching, raised>>

\* The timer with handle t runs runValidation and the sink raises at its
\* first line: timeout = null and the capture of the queue are not reached.
runValidationLogRaises(t) ==
    /\ delivering = 0
    /\ Pending(t)
    /\ timers[t] = 0
    /\ timers' = clearTimeout(timers, t)
    /\ fired' = fired \cup {t}
    /\ UNCHANGED <<validator, prepareForValidation, applicationUsername,
                   validationRequests, timeout, nTimers, cancelled, posts,
                   delivering, prepareCalls, prepareDone, delegations, nCalls,
                   invoked, firings, enqueued, sinceEnqueue, lastRun,
                   dispatching, raised>>

\* The transport answers post k and the sink raises in the handler, before
\* request.callbacks.forEach: no callback of the batch is called.
RespondLogRaises(k, response) ==
    /\ delivering = 0
    /\ k \in DOMAIN posts
    /\ posts[k].state = "sent"
    /\ posts' = [posts EXCEPT ![k] = [@ EXCEPT !.state = "aborted",
                                               !.response = response]]
    /\ UNCHANGED <<validator, prepareForValidation, applicationUsername,
                   validationRequests, timeout, timers, nTimers, cancelled,
                   fired, delivering, prepareCalls, prepareDone, delegations,
                   nCalls, invoked, firings, enqueued, sinceEnqueue, lastRun,
                   dispatching, raised>>

\* A store whose logging sink may raise at any of its calls: up to
\* MaxCallsSmall calls.
NextLog ==
    \/ \E p \in PlainProducts(nCalls + 1) :
           nCalls < MaxCallsSmall /\ Validate(p, FALSE)
    \/ \E p \in PlainProducts(nCalls + 1) :
           nCalls < MaxCallsSmall /\ ValidateLogRaises(p)
    \/ Dispatch({Url})
    \/ Transport({BodyOk}, {Error500})
    \/ \E t \in DOMAIN timers : runValidationLogRaises(t)
    \/ \E k \in DOMAIN posts :
           RespondLogRaises(k, [kind |-> "success", body |-> BodyOk])
    \/ \E k \in DOMAIN posts :
           RespondLogRaises(k, [kind |-> "error", status |-> Error500.status,
                                message |-> Error500.message])

SpecLog == Init /\ [][NextLog]_vars

\* ------------------------------------------------------ a success with no body
\* success(data) with data null or undefined.
NoBody == [none |-> TRUE]

\* success: function(data) { ... } called with no body.  The log call goes
\* through; in the first turn of request.callbacks.forEach the argument
\* data.data raises a TypeError before the callback is called, and the error
\* leaves forEach and the handler.
AjaxSuccessNoBody(k) ==
    /\ delivering = 0
    /\ k \in DOMAIN posts
    /\ posts[k].state = "sent"
    /\ posts' = [posts EXCEPT ![k] =
                    [@ EXCEPT !.state = "aborted",
                              !.response = [kind |-> "success",
                                            body |-> NoBody]]]
    /\ UNCHANGED <<validator, prepareForValidation, applicationUsername,
                   validationRequests, timeout, timers, nTimers, cancelled,
                   fired, delivering, prepareCalls, prepareDone, delegations,
                   nCalls, invoked, firings, enqueued, sinceEnqueue, lastRun,
                   dispatching, raised>>

\* Every response of the transport, a success with no body among them: up
\* to MaxCallsSmall calls.
NextMalformed ==
    \/ NextTransport
    \/ \E k \in DOMAIN posts : AjaxSuccessNoBody(k)

SpecMalformed == Init /\ [][NextMalformed]_vars

\* ------------------------------------------------ runValidation, step by step
\* The dispatch loop of runValidation calls application code once per batch:
\* the resolver store.getApplicationUsername and the transport
\* store.utils.ajax.  Either may raise, and either may call store._validator
\* before it returns.  Here a firing is one step up to the loop, one step per
\* turn of the loop and one for the return; no other handler runs meanwhile.

\* A firing that leaves the timer handle as it was.
runValidationStart_KeepHandle(t) ==
    /\ delivering = 0
    /\ dispatching = NotDispatching
    /\ Pending(t)
    /\ timers[t] = 0
    /\ timeout' = timeout
    /\ validationRequests' = ResetQueue
    /\ dispatching' = [firing |-> Len(firings) + 1,
                       byProduct |-> MergeByProduct(validationRequests),
                       next |-> 1]
    /\ firings' = Append(firings, [timer |-> t,
                                   requests |-> validationRequests,
                                   sinceEnqueue |-> sinceEnqueue,
                                   resolved |-> applicationUsername])
    /\ timers' = clearTimeout(timers, t)
    /\ fired' = fired \cup {t}
    /\ UNCHANGED <<validator, prepareForValidation, applicationUsername,
                   nTimers, cancelled, posts, delivering, prepareCalls,
                   prepareDone, delegations, nCalls, invoked, enqueued,
                   sinceEnqueue, lastRun, raised>>

\* runValidation from its first line to the merge: timeout = null, the
\* capture and reset of the queue, byProduct.
runValidationStart(t) ==
    /\ delivering = 0
    /\ dispatching = NotDispatching
    /\ Pending(t)
    /\ timers[t] = 0
    /\ timeout' = Null
    /\ validationRequests' = ResetQueue
    /\ dispatching' = [firing |-> Len(firings) + 1,
                       byProduct |-> MergeByProduct(validationRequests),
                       next |-> 1]
    /\ firings' = Append(firings, [timer |-> t,
                                   requests |-> validationRequests,
                                   sinceEnqueue |-> sinceEnqueue,
                                   resolved |-> applicationUsername])
    /\ timers' = clearTimeout(timers, t)
    /\ fired' = fired \cup {t}
    /\ UNCHANGED <<validator, prepareForValidation, applicationUsername,
                   nTimers, cancelled, posts, delivering, prepareCalls,
                   prepareDone, delegations, nCalls, invoked, enqueued,
                   sinceEnqueue, lastRun, raised>>

\* One turn of Object.keys(byProduct).forEach: the product of the batch is
\* normalized and posted.
DispatchBatch ==
    /\ dispatching # NotDispatching
    /\ dispatching.next <= Len(dispatching.byProduct)
    /\ posts' = Append(posts, Ajax(dispatching.byProduct[dispatching.next],
                                   dispatching.firing))
    /\ dispatching' = [dispatching EXCEPT !.next = @ + 1]
    /\ UNCHANGED <<validator, prepareForValidation, applicationUsername,
                   validationRequests, timeout, timers, nTimers, cancelled,
                   fired, delivering, prepareCalls, prepareDone, delegations,
                   nCalls, invoked, firings, enqueued, sinceEnqueue, lastRun,
                   raised>>

\* One turn in which store.getApplicationUsername or store.utils.ajax
\* raises: nothing in the loop catches the error, which leaves forEach and
\* runValidation; the turns of the batches that follow are not run.
DispatchBatchRaises ==
    /\ dispatching # NotDispatching
    /\ dispatching.next <= Len(dispatching.byProduct)
    /\ raised' = raised \cup
           {<<dispatching.firing,
              dispatching.byProduct[dispatching.next].productId>>}
    /\ dispatching' = NotDispatching
    /\ UNCHANGED <<validator, prepareForValidation, applicationUsername,
                   validationRequests, timeout, timers, nTimers, cancelled,
                   fired, posts, delivering, prepareCalls, prepareDone,
                   delegations, nCalls, invoked, firings, enqueued,
                   sinceEnqueue, lastRun>>

\* The loop is through and runValidation returns.
runValidationReturns ==
    /\ dispatching # NotDispatching
    /\ dispatching.next > Len(dispatching.byProduct)
    /\ dispatching' = NotDispatching
    /\ UNCHANGED <<validator, prepareForValidation, applicationUsername,
                   validationRequests, timeout, timers, nTimers, cancelled,
                   fired, posts, delivering, prepareCalls, prepareDone,
                   delegations, nCalls, invoked, firings, enqueued,
                   sinceEnqueue, lastRun, raised>>

\* One turn of request.callbacks.forEach in which the callback raises: the
\* error leaves forEach and the handler, and the callbacks that follow in the
\* batch are not called.
CallbackRaises ==
    /\ delivering # 0
    /\ posts[delivering].next <= Len(posts[delivering].callbacks)
    /\ LET k == delivering
           post == posts[k]
           callback == post.callbacks[post.next]
       IN  /\ invoked' = [invoked EXCEPT ![callback] =
                             Append(@, [ok |-> post.outcome.ok,
                                        data |-> post.outcome.data,
                                        via |-> k])]
           /\ posts' = [posts EXCEPT ![k] = [@ EXCEPT !.state = "aborted",
                                                      !.next = @ + 1]]
    /\ delivering' = 0
    /\ UNCHANGED <<validator, prepareForValidation, applicationUsername,
                   validationRequests, timeout, timers, nTimers, cancelled,
                   fired, prepareCalls, prepareDone, delegations, nCalls,
                   firings, enqueued, sinceEnqueue, lastRun, dispatching,
                   raised>>

\* The steps of the handlers other than runValidation; none starts while a
\* dispatch loop is running.
Handlers ==
    /\ dispatching = NotDispatching
    /\ \/ SetValidator(Url)
       \/ Tick
       \/ Transport({BodyOk}, {Error500})
       \/ InvokeCallback
       \/ HandlerReturns

\* The firing step by step, with a resolver, a transport and callbacks that
\* return: up to MaxCalls calls, also from inside the resolver or the
\* transport while the loop runs.
NextSteps ==
    \/ \E p \in PlainProducts(nCalls + 1) : Validate(p, FALSE)
    \/ Handlers
    \/ \E t \in DOMAIN timers : runValidationStart(t)
    \/ DispatchBatch
    \/ runValidationReturns

SpecSteps == Init /\ [][NextSteps]_vars

\* The same with a resolver, a transport and callbacks that may raise: up to
\* MaxCalls calls, from the application's own code.
NextBatches ==
    \/ \E p \in PlainProducts(nCalls + 1) :
           dispatching = NotDispatching /\ Validate(p, FALSE)
    \/ Handlers
    \/ \E t \in DOMAIN timers : runValidationStart(t)
    \/ DispatchBatch
    \/ DispatchBatchRaises
    \/ runValidationReturns
    \/ CallbackRaises

SpecBatches == Init /\ [][NextBatches]_vars

\* ------------------------------------------------------------------ claims
\* The callbacks of the requests firing f captured for product id.
CapturedFor(f, id) ==
    {firings[f].requests[j].callback :
        j \in {j \in DOMAIN firings[f].requests :
                  firings[f].requests[j].product.id = id}}

\* The product ids among the requests firing f captured.
IdsOf(f) ==
    {firings[f].requests[j].product.id : j \in DOMAIN firings[f].requests}

\* The outbound calls firing f issued, and those for product id.
PostsOfFiring(f) == {k \in DOMAIN posts : posts[k].firing = f}
PostsOf(f, id) == {k \in PostsOfFiring(f) : posts[k].data.id = id}

\* The invocations callback c received from the response of post k.
Via(c, k) == {i \in DOMAIN invoked[c] : invoked[c][i].via = k}

Range(seq) == {seq[i] : i \in DOMAIN seq}

\* C1: the requests for one product id captured by one firing (a burst of
\* N >= 1 calls enqueued before the timer fired) cause exactly one outbound
\* call for that id, and once its response is delivered every one of the N
\* callbacks has been invoked with one and the same (ok, data).
C1_OneCallPerBurst ==
    \A f \in DOMAIN firings, id \in ProductIds :
        CapturedFor(f, id) # {} =>
            /\ Cardinality(PostsOf(f, id)) = 1
            /\ \A k \in PostsOf(f, id) :
                   posts[k].state = "done" =>
                       /\ \A c \in CapturedFor(f, id) : Via(c, k) # {}
                       /\ \A c1, c2 \in CapturedFor(f, id) :
                              \A i1 \in Via(c1, k), i2 \in Via(c2, k) :
                                  /\ invoked[c1][i1].ok = invoked[c2][i2].ok
                                  /\ invoked[c1][i1].data = invoked[c2][i2].data

\* A burst of two or more calls for one id was captured, posted once and
\* answered, and every callback of the burst has been invoked.
C1_Witness ==
    \E f \in DOMAIN firings, id \in ProductIds :
        /\ Cardinality(CapturedFor(f, id)) >= 2
        /\ \E k \in PostsOf(f, id) :
               /\ posts[k].state = "done"
               /\ TypeofString(posts[k].url)
               /\ \A c \in CapturedFor(f, id) : Via(c, k) # {}

\* C2: a firing that captured requests for K distinct product ids issues
\* exactly K outbound calls, one per id, and the response of the call for id
\* p is delivered to exactly the callbacks of the captured requests for p.
C2_OneCallPerId ==
    /\ \A f \in DOMAIN firings :
           /\ Cardinality(PostsOfFiring(f)) = Cardinality(IdsOf(f))
           /\ \A id \in IdsOf(f) : Cardinality(PostsOf(f, id)) = 1
    /\ \A k \in DOMAIN posts :
           LET mine == CapturedFor(posts[k].firing, posts[k].data.id)
           IN  /\ Range(posts[k].callbacks) = mine
               /\ \A c \in 1..MaxCalls : Via(c, k) # {} => c \in mine
               /\ posts[k].state = "done" =>
                      \A c \in mine : Cardinality(Via(c, k)) = 1

\* One firing captured requests for two ids; both calls were answered.
C2_Witness ==
    \E f \in DOMAIN firings :
        /\ Cardinality(IdsOf(f)) = 2
        /\ Cardinality(PostsOfFiring(f)) = 2
        /\ \A k \in PostsOfFiring(f) : posts[k].state = "done"
        /\ \E id \in IdsOf(f) : Cardinality(CapturedFor(f, id)) >= 2

\* C3: the callback passed by a call of store._validator is invoked at most
\* once, over every interleaving of calls, completions of the pre-validation
\* step, changes of the validator, timer firings and transport responses.
C3_AtMostOnce ==
    \A c \in 1..MaxCalls : Len(invoked[c]) <= 1

\* Two calls went through the pre-validation step and the queue, were
\* captured by a firing, and the callback of each was invoked by a response.
C3_Witness ==
    /\ nCalls >= 2
    /\ \A c \in 1..2 :
           /\ Len(invoked[c]) = 1
           /\ invoked[c][1].via # 0
           /\ \E i \in prepareDone : prepareCalls[i].callback = c

\* A step in which store._validator runs: a call by the application, or the
\* completion of the pre-validation step.
ValidatorRuns == nCalls' # nCalls \/ prepareDone' # prepareDone

\* The callback the running store._validator was handed.
RunningCallback ==
    IF nCalls' # nCalls THEN nCalls + 1
    ELSE prepareCalls[CHOOSE i \in prepareDone' : i \notin prepareDone].callback

\* C5: a run of store._validator while no validator is configured invokes
\* callback(true, product) within that step, issues no outbound call, does
\* not run the pre-validation step, and leaves the queue, the timer handle
\* and the pending timers as they were.
C5_BypassFrame ==
    [][(ValidatorRuns /\ ~Truthy(validator)) =>
          /\ \E r \in [ok : {"true"}, data : [product : Products(RunningCallback)],
                       via : {0}] :
                 invoked' = [invoked EXCEPT ![RunningCallback] = Append(@, r)]
          /\ UNCHANGED <<validationRequests, timeout, timers, posts,
                         prepareCalls, delegations>>]_vars

\* With a pre-validation step configured, the second call was bypassed while
\* the request of the first was in the queue and its timer pending.
C5_Witness ==
    /\ prepareForValidation
    /\ nCalls = 2
    /\ prepareCalls = <<>>
    /\ Len(invoked[2]) = 1
    /\ invoked[2][1].via = 0
    /\ invoked[2][1].ok = "true"
    /\ invoked[2][1].data.product.ref = 2
    /\ validationRequests # <<>>
    /\ timeout # Null
    /\ Pending(timeout)

\* The last request for product id among those firing f captured.
LastFor(f, id) ==
    LET reqs == firings[f].requests
        js == {j \in DOMAIN reqs : reqs[j].product.id = id}
    IN  reqs[CHOOSE j \in js : \A i \in js : i <= j]

\* C6: last-write-wins: the body of the outbound call for an id is the
\* product object of the request enqueued last among the captured requests
\* for that id, whatever requests for other ids lie between them.
C6_LastWriteWins ==
    \A k \in DOMAIN posts :
        /\ posts[k].data.id \in IdsOf(posts[k].firing)
        /\ posts[k].data.ref = LastFor(posts[k].firing, posts[k].data.id).product.ref

\* A firing captured a request for "a", one for "b" and a later one for "a":
\* the call for "a" carries the snapshot of the third request.
C6_Witness ==
    \E f \in DOMAIN firings :
        /\ Len(firings[f].requests) = 3
        /\ firings[f].requests[1].product.id = "a"
        /\ firings[f].requests[2].product.id = "b"
        /\ firings[f].requests[3].product.id = "a"
        /\ \E k \in PostsOf(f, "a") :
               posts[k].data.ref = firings[f].requests[3].product.ref

\* C7: debounce restart: no timer is due earlier than Delay after the most
\* recent enqueue, so no firing happens earlier than that; a timer cleared by
\* a later enqueue is no longer pending and never fires.
C7_DebounceRestart ==
    /\ \A f \in DOMAIN firings :
           /\ firings[f].sinceEnqueue >= Delay
           /\ firings[f].timer \notin cancelled
    /\ \A h \in DOMAIN timers : timers[h] + sinceEnqueue >= Delay
    /\ cancelled \cap fired = {}
    /\ cancelled \cap DOMAIN timers = {}

\* A burst of two enqueues restarted the timer, and the restarted timer
\* fired with both requests.
C7_Witness ==
    \E f \in DOMAIN firings :
        /\ Len(firings[f].requests) >= 2
        /\ cancelled # {}
        /\ firings[f].timer \in fired
        /\ \E h \in cancelled : h < firings[f].timer

\* The firings that captured a request with callback c, and whether such a
\* request is in the live queue.
Captures(c) ==
    {f \in DOMAIN firings : c \in Range([j \in DOMAIN firings[f].requests |->
                                            firings[f].requests[j].callback])}
QueuedAt(c) ==
    {j \in DOMAIN validationRequests : validationRequests[j].callback = c}
CapturedAt(c) ==
    {<<f, j>> \in (DOMAIN firings) \X (1..MaxCalls) :
        /\ j \in DOMAIN firings[f].requests
        /\ firings[f].requests[j].callback = c}
DispatchedBy(c) ==
    {<<k, j>> \in (DOMAIN posts) \X (1..MaxCalls) :
        /\ j \in DOMAIN posts[k].callbacks
        /\ posts[k].callbacks[j] = c}

\* C8: queue draining is atomic.  Every enqueued request is either in the
\* live queue, not captured yet and waiting for a pending timer that has not
\* fired, or out of the queue and captured by exactly one firing, which is a
\* firing later than every firing that ran before the enqueue, and whose
\* dispatch holds its callback exactly once.
C8_AtomicDrain ==
    \A e \in DOMAIN enqueued :
        LET c == enqueued[e].callback
        IN  /\ Cardinality(QueuedAt(c)) + Cardinality(CapturedAt(c)) = 1
            /\ Cardinality(DispatchedBy(c)) = Cardinality(CapturedAt(c))
            /\ \A f \in Captures(c) :
                   /\ f > enqueued[e].firingsBefore
                   /\ \A x \in DispatchedBy(c) : posts[x[1]].firing = f
            /\ QueuedAt(c) # {} =>
                   /\ timeout # Null
                   /\ Pending(timeout)
                   /\ timeout \notin fired

\* A callback of a firing's fan-out enqueued a request re-entrantly, while
\* another call of that firing was still in flight; a later firing captured
\* the request and its callback was invoked.
C8_Witness ==
    \E e \in DOMAIN enqueued :
        LET c == enqueued[e].callback
            k == enqueued[e].during
        IN  /\ k # 0
            /\ \E f \in Captures(c) :
                   /\ f > posts[k].firing
                   /\ c \notin Range(posts[k].callbacks)
            /\ Len(invoked[c]) = 1
            /\ \E k2 \in PostsOfFiring(posts[k].firing) :
                   posts[k2].state = "sent"

\* Whether a product carries no usable applicationUsername.
Unset(product) == ~Truthy(product.additionalData.applicationUsername)

\* C9: the body of every outbound call has an additionalData mapping; when
\* the product's applicationUsername was unset the body has no such key if
\* the resolver returned nothing and carries the resolver's value if it
\* returned one; the body never has the key with a falsy value.
C9_UsernameNormalized ==
    \A k \in DOMAIN posts :
        LET body == posts[k].data.additionalData
            sent == LastFor(posts[k].firing, posts[k].data.id).product
            resolved == firings[posts[k].firing].resolved
        IN  /\ body.isObject
            /\ body.hasKey => Truthy(body.applicationUsername)
            /\ (Unset(sent) /\ ~Truthy(resolved)) => ~body.hasKey
            /\ (Unset(sent) /\ Truthy(resolved)) =>
                   (body.hasKey /\ body.applicationUsername = resolved)
            /\ ~Unset(sent) => body = sent.additionalData

\* A product with an empty applicationUsername was posted while the resolver
\* answered the empty string: the body has additionalData without the key.
C9_Witness ==
    \E k \in DOMAIN posts :
        /\ LastFor(posts[k].firing, posts[k].data.id).product.additionalData
               = WithApplicationUsername("")
        /\ firings[posts[k].firing].resolved = ""
        /\ posts[k].data.additionalData = EmptyAdditionalData

\* C10: when the outbound call of a batch fails with a status and a message,
\* every callback of the batch is invoked with (false, "Error " + status +
\* ": " + message): none is invoked with anything else, and once the handler
\* is through none is left uninvoked; the batch is not posted again.
C10_TransportFailure ==
    \A k \in DOMAIN posts :
        posts[k].response.kind = "error" =>
            \A c \in Range(posts[k].callbacks) :
                /\ \A i \in DOMAIN invoked[c] :
                       /\ invoked[c][i].via = k
                       /\ invoked[c][i].ok = "false"
                       /\ invoked[c][i].data =
                              [message |-> "Error "
                                   \o ToString(posts[k].response.status)
                                   \o ": " \o posts[k].response.message]
                /\ posts[k].state = "done" => Len(invoked[c]) = 1
                /\ Cardinality(DispatchedBy(c)) = 1

\* The call of a batch of two failed with 500 Internal Error, and both
\* callbacks received (false, "Error 500: Internal Error").
C10_Witness ==
    \E k \in DOMAIN posts :
        /\ posts[k].state = "done"
        /\ posts[k].response.kind = "error"
        /\ Len(posts[k].callbacks) = 2
        /\ \A c \in Range(posts[k].callbacks) :
               /\ Len(invoked[c]) = 1
               /\ invoked[c][1].ok = "false"
               /\ invoked[c][1].data = [message |-> "Error 500: Internal Error"]

\* The calls of store._prepareForValidation made for callback c.
PrepareRunsOf(c) ==
    {i \in DOMAIN prepareCalls : prepareCalls[i].callback = c}

\* Whether the request with callback c was pushed on the queue, or handed to
\* a function validator.
WasEnqueued(c) == \E e \in DOMAIN enqueued : enqueued[e].callback = c
WasDelegated(c) == \E d \in DOMAIN delegations : delegations[d].callback = c

\* C11: a run of store._validator while the validator is a function, with
\* no pre-validation step configured or with isPrepared true, calls the
\* function once with the product and the callback of that run, and leaves
\* the queue, the timer handle, the pending timers and the outbound calls as
\* they were.
C11_DelegateFrame ==
    [][(ValidatorRuns /\ validator = "function"
           /\ (~prepareForValidation \/ lastRun'.isPrepared)) =>
          /\ \E p \in PlainProducts(lastRun'.callback) :
                 delegations' = Append(delegations,
                                       [product |-> p,
                                        callback |-> lastRun'.callback])
          /\ UNCHANGED <<validationRequests, timeout, timers, nTimers,
                         cancelled, posts, enqueued, invoked,
                         prepareCalls>>]_vars

\* With a pre-validation step configured, the second call went through the
\* step and was handed to the function validator while the request of the
\* first call was in the queue with its timer pending.
C11_Witness ==
    /\ prepareForValidation
    /\ validator = "function"
    /\ Len(delegations) = 1
    /\ delegations[1].callback = 2
    /\ delegations[1].product.ref = 2
    /\ \E i \in prepareDone : prepareCalls[i].callback = 2
    /\ Len(validationRequests) = 1
    /\ timeout # Null
    /\ Pending(timeout)
    /\ posts = <<>>

\* C12: a call of store._validator with a validator and a pre-validation
\* step configured and isPrepared not true runs the step and neither pushes
\* the request nor hands it to a function validator in that run; the step
\* runs at most once for one callback, and a request that went through the
\* step is pushed or handed over only after the step's completion.
C12_PrepareOnce ==
    /\ [](\A c \in 1..MaxCalls :
             /\ Cardinality(PrepareRunsOf(c)) <= 1
             /\ (PrepareRunsOf(c) # {} /\ (WasEnqueued(c) \/ WasDelegated(c)))
                    => PrepareRunsOf(c) \subseteq prepareDone)
    /\ [][(nCalls' # nCalls /\ Truthy(validator) /\ prepareForValidation
             /\ ~lastRun'.isPrepared) =>
            /\ \E p \in PlainProducts(nCalls + 1) :
                   prepareCalls' = Append(prepareCalls,
                                          [product |-> p,
                                           callback |-> nCalls + 1])
            /\ UNCHANGED <<validationRequests, timeout, timers, delegations,
                           enqueued, posts, invoked>>]_vars

\* Both calls went through the pre-validation step once: the first was
\* pushed on the queue after its completion, the second handed to the
\* function validator after its own.
C12_Witness ==
    /\ prepareForValidation
    /\ \A c \in 1..2 : Cardinality(PrepareRunsOf(c)) = 1
    /\ prepareDone = {1, 2}
    /\ WasEnqueued(1)
    /\ WasDelegated(2)

\* Whether the handler of post k has run to its end or was left by an error.
HandlerOver(k) == posts[k].state \in {"done", "aborted"}

\* C13: a logging sink that raises blocks nothing: a request in the queue has
\* a pending timer, a timer that fired has captured the queue in a firing,
\* and once the response handler of an outbound call has run every callback
\* of its batch has been invoked.
C13_LogFailureNonFatal ==
    /\ validationRequests # <<>> => (timeout # Null /\ Pending(timeout))
    /\ \A t \in fired : \E f \in DOMAIN firings : firings[f].timer = t
    /\ \A k \in DOMAIN posts :
           HandlerOver(k) =>
               \A c \in Range(posts[k].callbacks) : Via(c, k) # {}

\* C14: the batches of one firing are independent.  Once the dispatch loop
\* of a firing is over, every batch whose own dispatch did not raise has
\* been posted, whatever happened to the other batches; and once the handler
\* of a call has run to its end, every callback of its batch has been
\* invoked with the outcome of that call.
C14_BatchesIndependent ==
    \A f \in DOMAIN firings :
        dispatching.firing # f =>
            \A id \in IdsOf(f) :
                <<f, id>> \notin raised =>
                    /\ Cardinality(PostsOf(f, id)) = 1
                    /\ \A k \in PostsOf(f, id) :
                           posts[k].state = "done" =>
                               \A c \in Range(posts[k].callbacks) :
                                   \E i \in Via(c, k) :
                                       /\ invoked[c][i].ok = posts[k].outcome.ok
                                       /\ invoked[c][i].data = posts[k].outcome.data

\* A step that starts a firing, and one that issues an outbound call.
FiringStarts == Len(firings') = Len(firings) + 1
CallIssued == Len(posts') > Len(posts)

\* Whether a request was pushed on the queue after firing f had started.
SawEnqueueSince(f) ==
    \E e \in DOMAIN enqueued : enqueued[e].firingsBefore >= f

\* C18: the step that starts a firing sets the timer handle to null and
\* replaces the queue by an empty one, and issues no outbound call and
\* invokes no callback; every outbound call of a firing during which no
\* request was pushed is issued with the handle null and the queue empty.
C18_FiringOrder ==
    [][/\ FiringStarts =>
              /\ timeout' = Null
              /\ validationRequests' = <<>>
              /\ posts' = posts
              /\ invoked' = invoked
       /\ CallIssued =>
              LET f == posts'[Len(posts')].firing
              IN  /\ f \in DOMAIN firings
                  /\ ~SawEnqueueSince(f) =>
                         /\ timeout = Null
                         /\ validationRequests = <<>>
                         /\ timeout' = Null
                         /\ validationRequests' = <<>>]_vars

\* A firing that captured requests for two ids has issued both calls, no
\* request was pushed meanwhile, and the loop has not returned yet.
C18_Witness ==
    /\ dispatching # NotDispatching
    /\ Len(dispatching.byProduct) = 2
    /\ dispatching.next = 3
    /\ Cardinality(PostsOfFiring(dispatching.firing)) = 2
    /\ ~SawEnqueueSince(dispatching.firing)
    /\ timeout = Null
    /\ validationRequests = <<>>

\* Whether the body of a success has no ok field.
OkMissing(body) == IF body = NoBody THEN TRUE ELSE body.ok = Undefined

\* C15: whatever body a success of the transport carries, once its handler
\* has run every callback of the batch has been invoked exactly once, and
\* with a falsy first argument when the body has no ok field.
C15_MalformedPassedThrough ==
    \A k \in DOMAIN posts :
        (posts[k].response.kind = "success" /\ HandlerOver(k)) =>
            \A c \in Range(posts[k].callbacks) :
                /\ Cardinality(Via(c, k)) = 1
                /\ OkMissing(posts[k].response.body) =>
                       \A i \in Via(c, k) : ~Truthy(invoked[c][i].ok)

\* C16: every outbound call is a POST to a validator endpoint: its url is a
\* string, also when store.validator was unset or set to a function between
\* the push of a request and the firing that posts it.
C16_UrlIsEndpoint ==
    \A k \in DOMAIN posts :
        /\ posts[k].method = "POST"
        /\ TypeofString(posts[k].url)

\* The timers started and neither cleared while pending nor fired.
PendingTimers == (1..nTimers) \ (cancelled \cup fired)

\* C17: at most one timer is pending: the timers started and neither
\* cancelled nor fired are those the runtime holds, there is at most one,
\* the timer handle refers to it when there is one and is null when there
\* is none.
C17_OneTimerPending ==
    /\ PendingTimers = DOMAIN timers
    /\ Cardinality(PendingTimers) <= 1
    /\ \A h \in PendingTimers : timeout = h
    /\ PendingTimers = {} => timeout = Null

\* After a timer was cancelled by a second call and its successor fired, a
\* third call started the one timer now pending.
C17_Witness ==
    /\ cancelled # {}
    /\ fired # {}
    /\ Cardinality(PendingTimers) = 1
    /\ timeout \in PendingTimers
    /\ nTimers = 3

\* C19: a timer is pending exactly when the queue is not empty, in every
\* state between two operations (and between two callbacks of a fan-out):
\* no request is in the queue without a pending timer, and no timer is
\* pending over an empty queue.
C19_TimerIffQueued ==
    /\ validationRequests # <<>> => (timeout # Null /\ Pending(timeout))
    /\ validationRequests = <<>> => (timeout = Null /\ DOMAIN timers = {})

\* After a firing emptied the queue, a call made while the outbound call of
\* that firing was in flight put a request in the queue and started a timer.
C19_Witness ==
    /\ firings # <<>>
    /\ \E k \in DOMAIN posts : posts[k].state = "sent"
    /\ Len(validationRequests) = 1
    /\ timeout # Null
    /\ Pending(timeout)
    /\ enqueued[Len(enqueued)].firingsBefore = Len(firings)

\* C20: responses are routed by firing, not by product id.  A callback is
\* invoked only by the response of a call issued by the firing that captured
\* its request, never by that of another firing's call for the same id, in
\* whatever order the responses arrive; a callback of a request pushed after
\* a firing started never receives a response of that firing.
C20_RoutedPerFiring ==
    \A k \in DOMAIN posts, c \in 1..MaxCalls :
        Via(c, k) # {} =>
            /\ posts[k].firing \in Captures(c)
            /\ \A e \in DOMAIN enqueued :
                   enqueued[e].callback = c =>
                       enqueued[e].firingsBefore < posts[k].firing
            /\ \A i \in Via(c, k) :
                   /\ invoked[c][i].ok = posts[k].outcome.ok
                   /\ invoked[c][i].data = posts[k].outcome.data

\* Two firings each issued a call for the same id and both were in flight at
\* once; the later call was answered first and its response went to the
\* callback of the later firing only.
C20_Witness ==
    \E k1, k2 \in DOMAIN posts :
        /\ k1 < k2
        /\ posts[k1].data.id = posts[k2].data.id
        /\ posts[k1].firing # posts[k2].firing
        /\ posts[k1].state = "sent"
        /\ posts[k2].state = "done"
        /\ \A c \in Range(posts[k1].callbacks) : invoked[c] = <<>>
        /\ \A c \in Range(posts[k2].callbacks) :
               Len(invoked[c]) = 1 /\ invoked[c][1].via = k2

====
